---- MODULE Spec2Model ----
(***************************************************************************)
(* Gmail -> Notion job tracker (autonomous-gmail-notion-final.py).         *)
(*                                                                         *)
(* Python strings are modelled as sequences of one-character strings, so   *)
(* that `in`, split, lower, strip, rstrip and capitalize are computed the  *)
(* way the interpreter computes them.                                      *)
(***************************************************************************)
EXTENDS Integers, Sequences, FiniteSets, TLC

VARIABLES
    mailbox,      \* messages matching GMAIL_SEARCH_QUERY, newest first
    store,        \* pages of the Notion database, in creation order
    pc,           \* "start" | "pass" | "idle" | "stopped" | "unit"
    passKind,     \* "none" | "mega" | "timer"
    messages,     \* sync_one_by_one: the enumerated message ids
    idx,          \* sync_one_by_one: loop index i (0-based)
    added,        \* sync_one_by_one: added_count
    now,          \* datetime.now(), in abstract ticks
    job,          \* the candidate returned by the last get_message_details
    reqs,         \* the store requests of the last add_to_notion call
    ret,          \* the value returned by the last add_to_notion call
    passLog,      \* ids fetched so far in the current pass
    outcome,      \* how the last pass ended: "none" | "completed" | "aborted"
    rejCur,       \* ids whose create/update was rejected in the current pass
    rejPrev,      \* ids whose create/update was rejected in the pass before
    lookupFailed  \* has any store lookup failed so far

vars == <<mailbox, store, pc, passKind, messages, idx, added, now, job, reqs,
          ret, passLog, outcome, rejCur, rejPrev, lookupFailed>>

-----------------------------------------------------------------------------
(* Bounds of the model *)

\* messages the mailbox can hold
MaxMail == 3
\* pages the store can hold when add_to_notion is exercised alone
MaxPages == 2
\* clock ticks when add_to_notion is exercised alone
MaxTick == 1
\* timer passes after the startup pass
MaxTimerPasses == 1
\* stands for count=2000 of the startup pass (line 345)
MegaCount == 3
\* stands for count=50 of a timer pass (line 348)
TimerCount == 1
\* stands for the page size 500 of messages().list (line 286)
PageSize == 2

(* Program constants *)

\* job['email_preview'][:2000]
PreviewMax == 2000
\* timedelta(days=7)
ActionDays == 7

-----------------------------------------------------------------------------
(* Python string operations *)

UpperLetters == <<"A","B","C","D","E","F","G","H","I","J","K","L","M","N","O","P","Q","R","S","T","U","V","W","X","Y","Z">>
LowerLetters == <<"a","b","c","d","e","f","g","h","i","j","k","l","m","n","o","p","q","r","s","t","u","v","w","x","y","z">>

UpperSet == {UpperLetters[i] : i \in 1..26}
LowerSet == {LowerLetters[i] : i \in 1..26}

LowerOf == [c \in UpperSet |-> LowerLetters[CHOOSE i \in 1..26 : UpperLetters[i] = c]]
UpperOf == [c \in LowerSet |-> UpperLetters[CHOOSE i \in 1..26 : LowerLetters[i] = c]]

\* str.lower() on one character
LowerChar(c) == IF c \in UpperSet THEN LowerOf[c] ELSE c

\* str.upper() on one character
UpperChar(c) == IF c \in LowerSet THEN UpperOf[c] ELSE c

\* s.lower()
Lower(s) == [i \in 1..Len(s) |-> LowerChar(s[i])]

\* s.capitalize(): first character upper-cased, the rest lower-cased
Capitalize(s) ==
    IF s = <<>> THEN s ELSE <<UpperChar(s[1])>> \o Lower(Tail(s))

\* sub in s
Contains(s, sub) ==
    \E i \in 0..(Len(s) - Len(sub)) : SubSeq(s, i + 1, i + Len(sub)) = sub

\* s.find(sub) as a 1-based position, 0 when absent
Find(s, sub) ==
    IF Contains(s, sub)
    THEN CHOOSE i \in 1..(Len(s) - Len(sub) + 1) :
            /\ SubSeq(s, i, i + Len(sub) - 1) = sub
            /\ \A j \in 1..(i - 1) : SubSeq(s, j, j + Len(sub) - 1) # sub
    ELSE 0

\* s.split(sep)[0]
SplitFirst(s, sep) ==
    IF Contains(s, sep) THEN SubSeq(s, 1, Find(s, sep) - 1) ELSE s

\* s.split(sep)[-1]: split scans left to right over non-overlapping separators
RECURSIVE SplitLast(_, _)
SplitLast(s, sep) ==
    IF Contains(s, sep)
    THEN SplitLast(SubSeq(s, Find(s, sep) + Len(sep), Len(s)), sep)
    ELSE s

\* s.replace(c, "") for a one-character c
RemoveChar(s, c) == SelectSeq(s, LAMBDA x : x # c)

\* s.lstrip(chars)
RECURSIVE LStrip(_, _)
LStrip(s, chars) ==
    IF s # <<>> /\ s[1] \in chars THEN LStrip(Tail(s), chars) ELSE s

\* s.rstrip(chars)
RECURSIVE RStrip(_, _)
RStrip(s, chars) ==
    IF s # <<>> /\ s[Len(s)] \in chars
    THEN RStrip(SubSeq(s, 1, Len(s) - 1), chars)
    ELSE s

Whitespace == {" "}

\* s.strip()
Strip(s) == RStrip(LStrip(s, Whitespace), Whitespace)

\* s[:n]
Take(s, n) == IF Len(s) <= n THEN s ELSE SubSeq(s, 1, n)

-----------------------------------------------------------------------------
(* get_message_details *)

\* self.user_email, resolved once at construction
UserEmail == <<"m","e","@","x",".","i","o">>

\* h['name'].lower() for the header names the mailbox delivers
HeaderNameLower(n) ==
    CASE n = "Subject" -> "subject"
      [] n = "From"    -> "from"
      [] n = "Date"    -> "date"
      [] OTHER         -> n

\* next((h['value'] for h in headers if h['name'].lower() == name), default)
HeaderValue(headers, name, default) ==
    IF \E i \in 1..Len(headers) : HeaderNameLower(headers[i].name) = name
    THEN headers[CHOOSE i \in 1..Len(headers) :
                    /\ HeaderNameLower(headers[i].name) = name
                    /\ \A j \in 1..(i - 1) :
                          HeaderNameLower(headers[j].name) # name].value
    ELSE default

GenericDomains ==
    { <<"g","m","a","i","l",".","c","o","m">>, <<"o","u","t","l","o","o","k",".","c","o","m">>, <<"y","a","h","o","o",".","c","o","m">>, <<"i","c","l","o","u","d",".","c","o","m">>, <<"m","e",".","c","o","m">>,
      <<"m","a","i","l",".","c","o","m">>, <<"n","o","t","i","f","i","c","a","t","i","o","n","s",".","g","r","e","e","n","h","o","u","s","e",".","i","o">>, <<"a","s","h","b","y","h","q",".","c","o","m">>, <<"l","e","v","e","r",".","c","o">> }

\* sender.split("<")[-1].replace(">", "").split("@")[-1].lower()
EmailDomain(sender) ==
    Lower(SplitLast(RemoveChar(SplitLast(sender, <<"<">>), ">"), <<"@">>))

\* A company guess that skips the denylist of generic domains.
CompanyOfNoDenylist(subject, sender) ==
    LET guess ==
          IF Contains(subject, <<" ","a","t"," ">>) THEN Strip(SplitLast(subject, <<" ","a","t"," ">>))
          ELSE IF Contains(subject, <<" ","t","o"," ">>) THEN Strip(SplitLast(subject, <<" ","t","o"," ">>))
          ELSE IF Contains(subject, <<" ","i","n"," ">>) THEN Strip(SplitLast(subject, <<" ","i","n"," ">>))
          ELSE IF Contains(sender, <<" ","-"," ">>) THEN Strip(SplitLast(sender, <<" ","-"," ">>))
          ELSE IF Contains(sender, <<"<">>)
               THEN IF Contains(EmailDomain(sender), <<".">>)
                    THEN Capitalize(SplitFirst(EmailDomain(sender), <<".">>))
                    ELSE <<"R","e","f","e","r","r","a","l","/","D","i","r","e","c","t">>
               ELSE <<"U","n","k","n","o","w","n"," ","C","o","m","p","a","n","y">>
    IN  RStrip(guess, {"!", ".", ","})

\* lines 116-140: the company guess, first matching rule wins
CompanyOf(subject, sender) ==
    LET guess ==
          IF Contains(subject, <<" ","a","t"," ">>) THEN Strip(SplitLast(subject, <<" ","a","t"," ">>))
          ELSE IF Contains(subject, <<" ","t","o"," ">>) THEN Strip(SplitLast(subject, <<" ","t","o"," ">>))
          ELSE IF Contains(subject, <<" ","i","n"," ">>) THEN Strip(SplitLast(subject, <<" ","i","n"," ">>))
          ELSE IF Contains(sender, <<" ","-"," ">>) THEN Strip(SplitLast(sender, <<" ","-"," ">>))
          ELSE IF Contains(sender, <<"<">>)
               THEN IF EmailDomain(sender) \notin GenericDomains
                       /\ Contains(EmailDomain(sender), <<".">>)
                    THEN Capitalize(SplitFirst(EmailDomain(sender), <<".">>))
                    ELSE <<"R","e","f","e","r","r","a","l","/","D","i","r","e","c","t">>
               ELSE <<"U","n","k","n","o","w","n"," ","C","o","m","p","a","n","y">>
    IN  RStrip(guess, {"!", ".", ","})

\* The Date header is kept abstract: which of the two strptime formats its
\* text (cut at " (") fits, and the instant it denotes.
\* lines 143-153
ReceivedDate(hasDate, date, t) ==
    IF ~hasDate THEN [at |-> t, tz |-> FALSE]
    ELSE IF date.form = "offset" THEN [at |-> date.at, tz |-> TRUE]
    ELSE IF date.form = "naive" THEN [at |-> date.at, tz |-> FALSE]
    ELSE [at |-> t, tz |-> FALSE]

RejectionKeywords ==
    { <<"u","n","f","o","r","t","u","n","a","t","e">>, <<"n","o","t"," ","m","o","v","i","n","g"," ","f","o","r","w","a","r","d">>, <<"r","e","j","e","c","t","e","d">>, <<"a","n","o","t","h","e","r"," ","c","a","n","d","i","d","a","t","e">>,
      <<"p","o","s","i","t","i","o","n"," ","f","i","l","l","e","d">>, <<"n","o","t"," ","b","e"," ","m","o","v","i","n","g">>, <<"t","h","a","n","k"," ","y","o","u"," ","f","o","r"," ","y","o","u","r"," ","i","n","t","e","r","e","s","t"," ","b","u","t">> }

InterviewKeywords ==
    { <<"i","n","t","e","r","v","i","e","w">>, <<"i","n","t","e","r","v","i","e","w","s">>, <<"m","e","e","t"," ","w","i","t","h">>, <<"n","e","x","t"," ","s","t","e","p","s">>, <<"c","h","a","t"," ","w","i","t","h">>,
      <<"s","c","h","e","d","u","l","i","n","g">>, <<"a","v","a","i","l","a","b","i","l","i","t","y">> }

\* any(kw in subject.lower() or kw in snippet for kw in keywords)
AnyKeyword(keywords, subject, snippet) ==
    LET lowered == Lower(subject)
    IN  \E kw \in keywords : Contains(lowered, kw) \/ Contains(snippet, kw)

\* A classifier that lets the interview check overwrite a rejection.
ClassifyInterviewLast(subject, snippet) ==
    IF AnyKeyword(InterviewKeywords, subject, snippet)
    THEN [status |-> "Interview Round 1",
          next_action |-> <<"S","c","h","e","d","u","l","e","/","P","r","e","p","a","r","e"," ","f","o","r"," ","i","n","t","e","r","v","i","e","w">>]
    ELSE IF AnyKeyword(RejectionKeywords, subject, snippet)
    THEN [status |-> "Rejected", next_action |-> <<"A","r","c","h","i","v","e","d">>]
    ELSE [status |-> "Applied", next_action |-> <<"C","h","e","c","k"," ","s","t","a","t","u","s">>]

\* lines 159-173; snippet is the lower-cased snippet of line 155
Classify(subject, snippet) ==
    LET s1 == IF AnyKeyword(RejectionKeywords, subject, snippet)
              THEN [status |-> "Rejected", next_action |-> <<"A","r","c","h","i","v","e","d">>]
              ELSE [status |-> "Applied", next_action |-> <<"C","h","e","c","k"," ","s","t","a","t","u","s">>]
    IN  IF AnyKeyword(InterviewKeywords, subject, snippet)
           /\ s1.status # "Rejected"
        THEN [status |-> "Interview Round 1",
              next_action |-> <<"S","c","h","e","d","u","l","e","/","P","r","e","p","a","r","e"," ","f","o","r"," ","i","n","t","e","r","v","i","e","w">>]
        ELSE s1

LinkPrefix == <<"h","t","t","p","s",":","/","/","m","a","i","l",".","g","o","o","g","l","e",".","c","o","m","/","m","a","i","l","/","u","/">>

\* f"https://mail.google.com/mail/u/{self.user_email}/#inbox/{msg_id}"
LinkOf(msg_id) == LinkPrefix \o UserEmail \o <<"/","#","i","n","b","o","x","/">> \o msg_id

NoJob == [none |-> TRUE]

\* lines 110-141, 155-173: the part of the candidate that is a function of the
\* message's text alone
ParseText(msg) ==
    LET subject == HeaderValue(msg.headers, "subject", <<"N","o"," ","S","u","b","j","e","c","t">>)
        sender  == HeaderValue(msg.headers, "from", <<"U","n","k","n","o","w","n"," ","S","e","n","d","e","r">>)
        snippet == Lower(msg.snippet)
        cls     == Classify(subject, snippet)
    IN  [subject     |-> subject,
         sender      |-> sender,
         company     |-> CompanyOf(subject, sender),
         snippet     |-> snippet,
         link        |-> LinkOf(msg.id),
         status      |-> cls.status,
         next_action |-> cls.next_action]

\* lines 110-186: the candidate built from one fetched message at time t;
\* text is ParseText(msg)
Candidate(msg, text, t) ==
    LET hasDate == \E i \in 1..Len(msg.headers) :
                      HeaderNameLower(msg.headers[i].name) = "date"
        date    == HeaderValue(msg.headers, "date", [form |-> "other", at |-> 0])
    IN  [title         |-> text.subject,
         company       |-> text.company,
         email_from    |-> text.sender,
         subject       |-> text.subject,
         date_received |-> ReceivedDate(hasDate, date, t),
         email_preview |-> text.snippet,
         email_link    |-> text.link,
         status        |-> text.status,
         next_action   |-> text.next_action,
         action_date   |-> t + ActionDays]

-----------------------------------------------------------------------------
(* add_to_notion *)

MutableProps == {"Status", "Next Action", "Email Preview", "Email Link"}

AllProps ==
    {"Title", "Company", "Email From", "Subject", "Date Received",
     "Email Preview", "Email Link", "Status", "Next Action", "Action Date"}

\* lines 215-226: the properties of the page built from a candidate
Properties(jb) ==
    [Title        |-> jb.title,
     Company      |-> jb.company,
     EmailFrom    |-> jb.email_from,
     Subject      |-> jb.subject,
     DateReceived |-> jb.date_received,
     EmailPreview |-> Take(jb.email_preview, PreviewMax),
     EmailLink    |-> jb.email_link,
     Status       |-> jb.status,
     NextAction   |-> jb.next_action,
     ActionDate   |-> jb.action_date]

\* An update that sends every property of the candidate.
UpdatePropsAll(jb) == AllProps

\* lines 240-247: the properties an update request carries
UpdateProps(jb) == MutableProps

\* PATCH /v1/pages/{page_id}: the store overwrites the properties sent
Patched(page, jb, props) ==
    LET new == Properties(jb)
    IN  [Title        |-> IF "Title" \in props THEN new.Title ELSE page.Title,
         Company      |-> IF "Company" \in props THEN new.Company ELSE page.Company,
         EmailFrom    |-> IF "Email From" \in props THEN new.EmailFrom ELSE page.EmailFrom,
         Subject      |-> IF "Subject" \in props THEN new.Subject ELSE page.Subject,
         DateReceived |-> IF "Date Received" \in props THEN new.DateReceived ELSE page.DateReceived,
         EmailPreview |-> IF "Email Preview" \in props THEN new.EmailPreview ELSE page.EmailPreview,
         EmailLink    |-> IF "Email Link" \in props THEN new.EmailLink ELSE page.EmailLink,
         Status       |-> IF "Status" \in props THEN new.Status ELSE page.Status,
         NextAction   |-> IF "Next Action" \in props THEN new.NextAction ELSE page.NextAction,
         ActionDate   |-> IF "Action Date" \in props THEN new.ActionDate ELSE page.ActionDate]

\* The answers of the store to one request.  "raise": requests raises and the
\* store has not acted; "lost": the store acted and requests raises (timeout=10)
\* before the response arrives.
QueryOutcomes == {"ok", "error", "raise"}
WriteOutcomes == {"ok", "error", "raise", "lost"}

\* filter Subject equals job['subject']: the indices of the matching pages
Matches(st, subject) == {i \in 1..Len(st) : st[i].Subject = subject}

Req(kind, props, out) == [kind |-> kind, props |-> props, outcome |-> out]

\* lines 206-212: the results of the lookup once requests.post has returned
QueryResults(st, jb, qo) ==
    IF qo = "ok" THEN Matches(st, jb.subject) ELSE {}

\* line 236
LinkOutdated(current_link) ==
    Contains(current_link, <<"/","u","/","0","/">>) /\ ~Contains(current_link, UserEmail)

\* An update decision that always writes.
NeedsUpdateAlways(page, jb) == TRUE

\* An update decision that looks at the link only.
NeedsUpdateLinkOnly(page, jb) == LinkOutdated(page.EmailLink)

\* line 238
NeedsUpdate(page, jb) ==
    page.Status # jb.status \/ LinkOutdated(page.EmailLink)

\* A reconciler that never takes the update branch.
ExistingBranchNever(results) == FALSE

\* line 228
ExistingBranch(results) == Cardinality(results) > 0

\* lines 192-273.  qo, wo: the store's answers to the lookup and to the write;
\* pick: the page the store returns first among the matches (results[0]).
AddToNotion(jb, st, qo, wo, pick) ==
    LET results == QueryResults(st, jb, qo)
        query   == Req("query", {"Subject"}, qo)
    IN  IF qo = "raise"
        THEN [store |-> st, reqs |-> <<query>>, ret |-> FALSE]
        ELSE IF ExistingBranch(results)
        THEN IF NeedsUpdate(st[pick], jb)
             THEN [store |-> IF wo \in {"ok", "lost"}
                             THEN [st EXCEPT ![pick] =
                                       Patched(st[pick], jb, UpdateProps(jb))]
                             ELSE st,
                   reqs  |-> <<query, Req("update", UpdateProps(jb), wo)>>,
                   ret   |-> FALSE]
             ELSE [store |-> st, reqs |-> <<query>>, ret |-> FALSE]
        ELSE [store |-> IF wo \in {"ok", "lost"}
                        THEN Append(st, Properties(jb))
                        ELSE st,
              reqs  |-> <<query, Req("create", AllProps, wo)>>,
              ret   |-> (wo = "ok")]

\* what results[0] can be
Picks(st, jb, qo) ==
    IF QueryResults(st, jb, qo) = {} THEN {0} ELSE QueryResults(st, jb, qo)

\* the write outcomes that matter to a call: one when no write is issued
Writes(st, jb, qo, pick) ==
    IF Len(AddToNotion(jb, st, qo, "ok", pick).reqs) > 1
    THEN WriteOutcomes ELSE {"ok"}

-----------------------------------------------------------------------------
(* The mailbox *)

Hdr(n, v) == [name |-> n, value |-> v]

MsgA == [id |-> <<"a">>,
         headers |-> << Hdr("Subject", <<"A","p","p","l","i","e","d"," ","t","o"," ","A","c","m","e">>),
                        Hdr("From", <<"A","c","m","e"," ","<","j","o","b","s","@","a","c","m","e",".","i","o",">">>),
                        Hdr("Date", [form |-> "offset", at |-> 0]) >>,
         snippet |-> <<"T","h","a","n","k","s"," ","f","o","r"," ","a","p","p","l","y","i","n","g">>]

MsgB == [id |-> <<"b">>,
         headers |-> << Hdr("From", <<"A","c","m","e"," ","<","j","o","b","s","@","a","c","m","e",".","i","o",">">>),
                        Hdr("subject", <<"A","p","p","l","i","e","d"," ","t","o"," ","A","c","m","e">>),
                        Hdr("Date", [form |-> "naive", at |-> 0]) >>,
         snippet |-> <<"U","n","f","o","r","t","u","n","a","t","e","l","y",","," ","n","o">>]

MsgC == [id |-> <<"c">>,
         headers |-> << Hdr("Subject", <<"N","e","x","t"," ","S","t","e","p","s">>),
                        Hdr("From", <<"s","o","m","e","o","n","e","@","g","m","a","i","l",".","c","o","m">>) >>,
         snippet |-> <<"P","l","e","a","s","e"," ","s","h","a","r","e"," ","y","o","u","r"," ","a","v","a","i","l","a","b","i","l","i","t","y">>]

Corpus == {MsgA, MsgB, MsgC}

\* Inputs of get_message_details taken alone: every subject with every From
\* header and every snippet, and a message with neither header.
UnitSubjects ==
    { <<"U","p","d","a","t","e">>, <<"A","p","p","l","i","e","d"," ","t","o"," ","A","c","m","e">>, <<"N","o","t"," ","M","o","v","i","n","g"," ","F","o","r","w","a","r","d"," ","a","f","t","e","r"," ","i","n","t","e","r","v","i","e","w">>, <<"R","o","l","e"," ","a","t"," ","A","c","m","e","!">>,
      <<"I","n","t","r","o"," ","t","o"," ","Q","A"," ","i","n"," ","B","e","r","l","i","n",".">>, <<"I","N","T","E","R","V","I","E","W">> }

UnitSenders ==
    { <<"J","o","b","s"," ","<","c","a","r","e","e","r","s","@","n","o","t","a","r","e","a","l","c","o","m","p","a","n","y",".","i","o",">">>, <<"s","o","m","e","o","n","e","@","g","m","a","i","l",".","c","o","m">>,
      <<"H","R"," ","<","h","r","@","G","m","a","i","l",".","c","o","m",">">>, <<"A","n","n"," ","-"," ","I","n","i","t","e","c","h">>, <<"B","o","b"," ","<","b","o","b","@","l","o","c","a","l","h","o","s","t",">">>,
      <<"Z"," ","<","z","@","c","o","!",".","u","k",">">> }

UnitSnippets ==
    { <<>>, <<"U","n","f","o","r","t","u","n","a","t","e","l","y",","," ","n","o">>, <<"W","e"," ","c","h","o","s","e"," ","A","n","o","t","h","e","r"," ","C","a","n","d","i","d","a","t","e",";"," ","n","o"," ","i","n","t","e","r","v","i","e","w","s">>,
      <<"S","h","a","r","e"," ","y","o","u","r"," ","a","v","a","i","l","a","b","i","l","i","t","y">> }

UnitMessages ==
    { [id |-> <<"u">>,
       headers |-> << Hdr("Subject", sj), Hdr("From", sd) >>,
       snippet |-> sn] : sj \in UnitSubjects, sd \in UnitSenders,
                         sn \in UnitSnippets }
    \cup { [id |-> <<"u">>, headers |-> <<>>, snippet |-> <<"r","e","j","e","c","t","e","d">>] }

Range(f) == {f[i] : i \in DOMAIN f}

NoDup(seq) == \A i, j \in DOMAIN seq : i # j => seq[i] # seq[j]

Mailboxes ==
    UNION { {mb \in [1..n -> Corpus] : NoDup(mb)} : n \in 0..MaxMail }

MessageById(mb, id) == CHOOSE m \in Range(mb) : m.id = id

Min(a, b) == IF a < b THEN a ELSE b

\* lines 285-301: the pagination loop; token is the number of messages the
\* pages fetched so far cover
RECURSIVE ListLoop(_, _, _, _)
ListLoop(mb, count, msgs, token) ==
    IF Len(msgs) < count
    THEN LET max_results == Min(count - Len(msgs), PageSize)
             last  == Min(token + max_results, Len(mb))
             batch == [i \in 1..(last - token) |-> mb[token + i].id]
             more  == last < Len(mb)
         IN  IF batch = <<>> THEN msgs
             ELSE IF ~more THEN msgs \o batch
             ELSE ListLoop(mb, count, msgs \o batch, last)
    ELSE msgs

\* A listing that ignores the cap.
ListMessagesUncapped(mb, count) == [i \in 1..Len(mb) |-> mb[i].id]

ListMessages(mb, count) == ListLoop(mb, count, <<>>, 0)

\* ParseText of every message of the model, computed once
TextOf == [m \in Corpus \cup UnitMessages |-> ParseText(m)]

\* lines 103-186: get_message_details on a message that parses
GetMessageDetails(msg, t) == Candidate(msg, TextOf[msg], t)

\* A page of an earlier version of the program, whose links used "/u/0/".
LegacyPage ==
    [Properties(GetMessageDetails(MsgA, 0)) EXCEPT
        !.EmailLink = LinkPrefix \o <<"0","/","#","i","n","b","o","x","/">> \o MsgA.id]

InitialStores == { <<>>, <<LegacyPage>> }

-----------------------------------------------------------------------------
(* sync_one_by_one and main *)

Init ==
    /\ mailbox \in Mailboxes
    /\ store \in InitialStores
    /\ pc = "start"
    /\ passKind = "none"
    /\ messages = <<>>
    /\ idx = 0
    /\ added = 0
    /\ now = 0
    /\ job = NoJob
    /\ reqs = <<>>
    /\ ret = FALSE
    /\ passLog = <<>>
    /\ outcome = "none"
    /\ rejCur = {}
    /\ rejPrev = {}
    /\ lookupFailed = FALSE

\* A pass whose exception escapes to main's handler, which exits.
AfterPassExceptionExit == "stopped"

\* lines 327-328: the exception is printed and sync_one_by_one returns; main
\* goes on to (or stays in) its schedule loop
AfterPassException == "idle"

\* A new matching message reaches the mailbox.  The program reads the mailbox
\* listing only when a pass begins, so an arrival during a pass shows as one
\* right after it; Init covers the arrivals before the startup pass.
Arrive ==
    /\ pc = "idle"
    /\ Len(mailbox) < MaxMail
    /\ \E m \in Corpus :
          /\ m \notin Range(mailbox)
          /\ mailbox' = <<m>> \o mailbox
    /\ UNCHANGED <<store, pc, passKind, messages, idx, added, now, job, reqs,
                   ret, passLog, outcome, rejCur, rejPrev, lookupFailed>>

\* lines 277-303, entered with the given cap; the listing succeeds
BeginPass(kind, count) ==
    /\ now' = now + 1
    /\ passKind' = kind
    /\ messages' = ListMessages(mailbox, count)
    /\ idx' = 0
    /\ added' = 0
    /\ pc' = "pass"
    /\ outcome' = "none"
    /\ job' = NoJob
    /\ reqs' = <<>>
    /\ ret' = FALSE
    /\ passLog' = <<>>
    /\ rejPrev' = rejCur
    /\ rejCur' = {}
    /\ UNCHANGED <<mailbox, store, lookupFailed>>

\* lines 287-292 raise: the pass ends at line 327 with nothing processed
BeginPassFails(kind) ==
    /\ now' = now + 1
    /\ passKind' = kind
    /\ messages' = <<>>
    /\ idx' = 0
    /\ added' = 0
    /\ pc' = AfterPassException
    /\ outcome' = "aborted"
    /\ job' = NoJob
    /\ reqs' = <<>>
    /\ ret' = FALSE
    /\ passLog' = <<>>
    /\ rejPrev' = rejCur
    /\ rejCur' = {}
    /\ UNCHANGED <<mailbox, store, lookupFailed>>

\* line 345
StartMega == pc = "start" /\ BeginPass("mega", MegaCount)

StartMegaFails == pc = "start" /\ BeginPassFails("mega")

\* lines 348, 355-357: the schedule fires sync_cycle(count=50)
StartTimer ==
    pc = "idle" /\ now <= MaxTimerPasses /\ BeginPass("timer", TimerCount)

StartTimerFails ==
    pc = "idle" /\ now <= MaxTimerPasses /\ BeginPassFails("timer")

Logged(id, ok) == [id |-> id, ok |-> ok]

\* A parse failure that escapes get_message_details and ends the pass.
ParseFailEscapes ==
    /\ pc = "pass"
    /\ idx < Len(messages)
    /\ job' = NoJob
    /\ reqs' = <<>>
    /\ ret' = FALSE
    /\ passLog' = Append(passLog, Logged(messages[idx + 1], FALSE))
    /\ pc' = AfterPassException
    /\ outcome' = "aborted"
    /\ UNCHANGED <<mailbox, store, passKind, messages, idx, added, now,
                   rejCur, rejPrev, lookupFailed>>

\* lines 312-313 with get_message_details returning None (lines 188-190)
ParseFail ==
    /\ pc = "pass"
    /\ idx < Len(messages)
    /\ job' = NoJob
    /\ reqs' = <<>>
    /\ ret' = FALSE
    /\ passLog' = Append(passLog, Logged(messages[idx + 1], FALSE))
    /\ idx' = idx + 1
    /\ UNCHANGED <<mailbox, store, pc, passKind, messages, added, now, outcome,
                   rejCur, rejPrev, lookupFailed>>

\* every request of the call was answered with 200
AllOk(rs) == \A i \in 1..Len(rs) : rs[i].outcome = "ok"

WriteRejected(rs) ==
    \E i \in 1..Len(rs) :
        rs[i].kind \in {"create", "update"} /\ rs[i].outcome = "error"

\* lines 312-318: one message is fetched, parsed and reconciled
Reconcile ==
    /\ pc = "pass"
    /\ idx < Len(messages)
    /\ LET id == messages[idx + 1]
           jb == GetMessageDetails(MessageById(mailbox, id), now)
       IN  \E qo \in QueryOutcomes : \E pick \in Picks(store, jb, qo) :
           \E wo \in Writes(store, jb, qo, pick) :
             LET r == AddToNotion(jb, store, qo, wo, pick)
             IN  /\ job' = jb
                 /\ store' = r.store
                 /\ reqs' = r.reqs
                 /\ ret' = r.ret
                 /\ passLog' = Append(passLog, Logged(id, TRUE))
                 /\ lookupFailed' = (lookupFailed \/ qo # "ok")
                 /\ rejCur' = IF WriteRejected(r.reqs)
                              THEN rejCur \cup {id} ELSE rejCur
                 /\ idx' = idx + 1
                 /\ added' = IF r.ret THEN added + 1 ELSE added
    /\ UNCHANGED <<mailbox, pc, passKind, messages, now, outcome, rejPrev>>

\* an exception of the loop outside the two calls that catch their own
\* (lines 303-309, 316-318, 322-325), caught at line 327; the locals of the
\* loop body are gone
LoopFault ==
    /\ pc = "pass"
    /\ pc' = AfterPassException
    /\ outcome' = "aborted"
    /\ added' = 0
    /\ job' = NoJob
    /\ reqs' = <<>>
    /\ ret' = FALSE
    /\ passLog' = <<>>
    /\ UNCHANGED <<mailbox, store, passKind, messages, idx, now, rejCur,
                   rejPrev, lookupFailed>>

\* lines 322-325: the loop is over and the pass returns; its locals are gone
EndPass ==
    /\ pc = "pass"
    /\ idx = Len(messages)
    /\ pc' = "idle"
    /\ outcome' = "completed"
    /\ messages' = <<>>
    /\ idx' = 0
    /\ added' = 0
    /\ job' = NoJob
    /\ reqs' = <<>>
    /\ ret' = FALSE
    /\ passLog' = <<>>
    /\ UNCHANGED <<mailbox, store, passKind, now, rejCur, rejPrev,
                   lookupFailed>>

\* lines 359-360: KeyboardInterrupt ends the process and with it everything
\* but the mailbox and the store
Interrupt ==
    /\ pc \in {"start", "pass", "idle"}
    /\ pc' = "stopped"
    /\ passKind' = "none"
    /\ messages' = <<>>
    /\ idx' = 0
    /\ added' = 0
    /\ job' = NoJob
    /\ reqs' = <<>>
    /\ ret' = FALSE
    /\ passLog' = <<>>
    /\ outcome' = "none"
    /\ rejCur' = {}
    /\ rejPrev' = {}
    /\ UNCHANGED <<mailbox, store, now, lookupFailed>>

Next ==
    \/ Arrive
    \/ StartMega
    \/ StartMegaFails
    \/ StartTimer
    \/ StartTimerFails
    \/ ParseFail
    \/ Reconcile
    \/ LoopFault
    \/ EndPass
    \/ Interrupt

Spec == Init /\ [][Next]_vars

-----------------------------------------------------------------------------
(* get_message_details and add_to_notion exercised alone, on one message *)

UnitInit ==
    /\ mailbox \in {<<m>> : m \in UnitMessages}
    /\ store \in InitialStores
    /\ pc = "unit"
    /\ passKind = "none"
    /\ messages = <<>>
    /\ idx = 0
    /\ added = 0
    /\ now = 0
    /\ job = NoJob
    /\ reqs = <<>>
    /\ ret = FALSE
    /\ passLog = <<>>
    /\ outcome = "none"
    /\ rejCur = {}
    /\ rejPrev = {}
    /\ lookupFailed = FALSE

\* job = get_message_details(msg_id)
UnitParse ==
    /\ pc = "unit"
    /\ job' = GetMessageDetails(mailbox[1], now)
    /\ reqs' = <<>>
    /\ ret' = FALSE
    /\ UNCHANGED <<mailbox, store, pc, passKind, messages, idx, added, now,
                   passLog, outcome, rejCur, rejPrev, lookupFailed>>

UnitTick ==
    /\ pc = "unit"
    /\ now < MaxTick
    /\ now' = now + 1
    /\ UNCHANGED <<mailbox, store, pc, passKind, messages, idx, added, job,
                   reqs, ret, passLog, outcome, rejCur, rejPrev, lookupFailed>>

\* add_to_notion(job)
UnitReconcile ==
    /\ pc = "unit"
    /\ job # NoJob
    /\ Len(store) < MaxPages
    /\ \E qo \in QueryOutcomes : \E pick \in Picks(store, job, qo) :
       \E wo \in Writes(store, job, qo, pick) :
          LET r == AddToNotion(job, store, qo, wo, pick)
          IN  /\ store' = r.store
              /\ reqs' = r.reqs
              /\ ret' = r.ret
              /\ lookupFailed' = (lookupFailed \/ qo # "ok")
    /\ UNCHANGED <<mailbox, pc, passKind, messages, idx, added, now, job,
                   passLog, outcome, rejCur, rejPrev>>

UnitNext == UnitParse \/ UnitTick \/ UnitReconcile

SpecUnit == UnitInit /\ [][UnitNext]_vars

-----------------------------------------------------------------------------
(* The program with every call succeeding and nothing arriving *)

\* lines 312-318 when every request of add_to_notion is answered with 200
ReconcileOk == Reconcile /\ AllOk(reqs')

\* The startup pass and the timer passes over a mailbox that does not change,
\* with no failure of the listing, of a fetch or of a store request and no
\* interrupt: every pass runs to its end.
NextSteady == StartMega \/ StartTimer \/ ReconcileOk \/ EndPass

SpecSteady == Init /\ [][NextSteady]_vars

-----------------------------------------------------------------------------
(* Properties *)

Kinds(rs, kind) == {i \in 1..Len(rs) : rs[i].kind = kind}

NoWrite(rs) == Kinds(rs, "create") = {} /\ Kinds(rs, "update") = {}

\* C1: a call of add_to_notion that finds no page with the candidate's subject
\* and whose requests all succeed creates exactly one page and returns True;
\* a second call with the same candidate right after it, its lookup
\* succeeding, issues no create and no update, leaves the store as it is and
\* returns False.
C1_Idempotent ==
    [][UnitReconcile =>
         /\ (Matches(store, job.subject) = {} /\ AllOk(reqs'))
               => /\ ret' = TRUE
                  /\ Cardinality(Kinds(reqs', "create")) = 1
                  /\ Kinds(reqs', "update") = {}
                  /\ store' = Append(store, Properties(job))
         /\ (ret = TRUE /\ AllOk(reqs) /\ AllOk(reqs'))
               => /\ ret' = FALSE
                  /\ NoWrite(reqs')
                  /\ store' = store]_vars

\* the second of two calls with one candidate has just returned
C1_Witness ==
    /\ pc = "unit"
    /\ job # NoJob
    /\ store = <<Properties(job)>>
    /\ reqs = <<Req("query", {"Subject"}, "ok")>>
    /\ ret = FALSE


\* the raw headers and snippet of the one message of SpecUnit
UnitSubject == HeaderValue(mailbox[1].headers, "subject", <<"N","o"," ","S","u","b","j","e","c","t">>)
UnitSender == HeaderValue(mailbox[1].headers, "from", <<"U","n","k","n","o","w","n"," ","S","e","n","d","e","r">>)

Evidence(keywords) ==
    \E kw \in keywords :
        \/ Contains(Lower(UnitSubject), kw)
        \/ Contains(Lower(mailbox[1].snippet), kw)

\* C6: whenever a rejection keyword occurs, in any letter case, in the subject
\* or the snippet of the message, the candidate's status is Rejected and its
\* next action is "Archived", whether or not an interview keyword occurs too.
C6_RejectionWins ==
    (pc = "unit" /\ job # NoJob /\ Evidence(RejectionKeywords))
        => (job.status = "Rejected" /\ job.next_action = <<"A","r","c","h","i","v","e","d">>)

\* a parsed message with a rejection keyword and an interview keyword
C6_Witness ==
    /\ pc = "unit"
    /\ job # NoJob
    /\ Evidence(RejectionKeywords)
    /\ Evidence(InterviewKeywords)
    /\ job.status = "Rejected"

\* a From header without " - ", and no " at ", " to ", " in " in the subject
NoPattern ==
    /\ \E i \in 1..Len(mailbox[1].headers) :
          HeaderNameLower(mailbox[1].headers[i].name) = "from"
    /\ ~Contains(UnitSubject, <<" ","a","t"," ">>)
    /\ ~Contains(UnitSubject, <<" ","t","o"," ">>)
    /\ ~Contains(UnitSubject, <<" ","i","n"," ">>)
    /\ ~Contains(UnitSender, <<" ","-"," ">>)

\* the domain of the From address: what follows its last "@", lower-cased,
\* inside the angle brackets when there are any
AddressDomain == EmailDomain(UnitSender)

DomainCompany ==
    IF AddressDomain \notin GenericDomains /\ Contains(AddressDomain, <<".">>)
    THEN RStrip(Capitalize(SplitFirst(AddressDomain, <<".">>)), {"!", ".", ","})
    ELSE <<"R","e","f","e","r","r","a","l","/","D","i","r","e","c","t">>

StatusDiffers(st, jb) ==
    /\ Matches(st, jb.subject) # {}
    /\ \A i \in Matches(st, jb.subject) : st[i].Status # jb.status

OneMutableUpdate(st, st2, jb, rs) ==
    /\ Cardinality(Kinds(rs, "update")) = 1
    /\ \A i \in Kinds(rs, "update") : rs[i].props = MutableProps
    /\ Kinds(rs, "create") = {}
    /\ Cardinality(Matches(st2, jb.subject)) = Cardinality(Matches(st, jb.subject))

\* C2 as stated: every call of add_to_notion with a candidate whose subject is
\* in the store under another status issues exactly one update, of exactly the
\* four mutable properties, and no create.
C2_AsStated ==
    [][Reconcile =>
         (StatusDiffers(store, job') => OneMutableUpdate(store, store', job', reqs'))]_vars

\* C2: every call of add_to_notion whose lookup succeeds, with a candidate
\* whose subject is in the store under another status, issues exactly one
\* update, of exactly the four mutable properties, and no create, so the
\* pages with that subject stay as many.
C2_Update ==
    [][Reconcile =>
         ((StatusDiffers(store, job') /\ reqs'[1].outcome = "ok")
             => OneMutableUpdate(store, store', job', reqs'))]_vars

\* a page made from one message has taken the status of another message with
\* the same subject
C2_Witness ==
    /\ pc = "pass"
    /\ job # NoJob
    /\ Len(reqs) = 2
    /\ reqs[2] = Req("update", MutableProps, "ok")
    /\ \E i \in 1..Len(store) :
          /\ store[i].Subject = job.subject
          /\ store[i].Status = job.status
          /\ store[i].DateReceived # job.date_received

\* C3: as long as no store lookup has failed, the store holds at most one page
\* per subject.
C3_OnePerSubject ==
    ~lookupFailed =>
        \A i, j \in 1..Len(store) :
            store[i].Subject = store[j].Subject => i = j

\* two messages with one subject have been reconciled in one pass and the
\* store holds one page for them
C3_Witness ==
    /\ ~lookupFailed
    /\ pc = "pass"
    /\ \E i, j \in 1..Len(passLog) :
          /\ passLog[i].ok /\ passLog[j].ok
          /\ passLog[i].id = MsgA.id /\ passLog[j].id = MsgB.id
    /\ Cardinality(Matches(store, TextOf[MsgA].subject)) = 1

\* C4 as stated: a call of add_to_notion whose lookup fails, by a raised
\* exception or by a non-200 response, issues a create request.
C4_AsStated ==
    [][Reconcile =>
         (reqs'[1].outcome # "ok" => Kinds(reqs', "create") # {})]_vars

\* 1-based place of a message id in a mailbox, 0 when absent
Place(mb, id) ==
    IF \E i \in 1..Len(mb) : mb[i].id = id
    THEN CHOOSE i \in 1..Len(mb) : mb[i].id = id
    ELSE 0

Fetched(id) == \E i \in 1..Len(passLog) : passLog[i].id = id

Reconciled(id) == \E i \in 1..Len(passLog) : passLog[i].id = id /\ passLog[i].ok

\* the step in which a pass returns with its loop over
Completes == pc = "pass" /\ outcome' = "completed"

\* C5 as stated: when a timer pass completes without a parse failure, every
\* message whose create or update was rejected in the pass before it, the
\* startup pass included, has been fetched and reconciled again.
C5_AsStated ==
    [][(Completes /\ passKind = "timer"
           /\ \A i \in 1..Len(passLog) : passLog[i].ok)
          => \A id \in rejPrev : Reconciled(id)]_vars

\* C5: a message whose create or update was rejected in a pass is listed by
\* the next timer pass exactly when it is among the first TimerCount messages
\* of the mailbox; when that pass completes, every such message it listed has
\* been fetched again, once, and no other has.
C5_Reconsidered ==
    /\ [][StartTimer =>
            \A id \in rejCur :
                (id \in Range(messages'))
                    <=> (Place(mailbox, id) \in 1..TimerCount)]_vars
    /\ [][(Completes /\ passKind = "timer") =>
            \A id \in rejPrev :
                /\ Fetched(id) <=> id \in Range(messages)
                /\ Cardinality({i \in 1..Len(passLog) : passLog[i].id = id}) <= 1]_vars

\* a message rejected in one pass has been reconciled again by the timer pass
\* after it
C5_Witness ==
    /\ pc = "pass"
    /\ passKind = "timer"
    /\ \E id \in rejPrev : Reconciled(id)

ImmutableFields(page) ==
    <<page.Title, page.Company, page.EmailFrom, page.Subject,
      page.DateReceived, page.ActionDate>>

\* C7: no step removes a page or changes the Title, Company, Email From,
\* Subject, Date Received or Action Date of a page.
C7_Immutable ==
    [][/\ Len(store') >= Len(store)
       /\ \A i \in 1..Len(store) :
             ImmutableFields(store'[i]) = ImmutableFields(store[i])]_vars

\* a page has been updated from a candidate whose Date Received and Action
\* Date differ from the page's
C7_Witness ==
    /\ pc = "pass"
    /\ job # NoJob
    /\ Len(reqs) = 2
    /\ reqs[2] = Req("update", MutableProps, "ok")
    /\ \E i \in 1..Len(store) :
          /\ store[i].Subject = job.subject
          /\ store[i].EmailLink = job.email_link
          /\ store[i].DateReceived # job.date_received
          /\ store[i].ActionDate # job.action_date

\* the step logs a message whose parse failed
ParseFailed ==
    /\ Len(passLog') = Len(passLog) + 1
    /\ ~passLog'[Len(passLog')].ok

\* C8: the step in which a message fails to parse yields no candidate, sends
\* nothing to the store and moves the loop to the next message; a pass that
\* completes has fetched every enumerated message once, in order.
C8_ParseFailure ==
    /\ [][ParseFailed =>
            /\ job' = NoJob
            /\ reqs' = <<>>
            /\ store' = store
            /\ pc' = "pass"
            /\ messages' = messages
            /\ idx' = idx + 1]_vars
    /\ [][Completes =>
            [i \in 1..Len(passLog) |-> passLog[i].id] = messages]_vars

\* in one pass a message has failed to parse and a later one was reconciled
C8_Witness ==
    /\ pc = "pass"
    /\ \E i, j \in 1..Len(passLog) :
          i < j /\ ~passLog[i].ok /\ passLog[j].ok

\* the step in which a pass ends by an exception
Aborts == outcome' = "aborted" /\ (outcome # "aborted" \/ now' # now)

C11_AsStated ==
    (pc = "pass" /\ passKind = "timer") => NoWrite(reqs)

====
